---- MODULE Spec2Model ----
(***************************************************************************)
(* A model of usg (src/src/main.rs): the sampling loop of main(), the      *)
(* packet-capture thread it spawns, the counter mutex and the mpsc channel *)
(* of filter updates between them, and build_packet_filter.                *)
(*                                                                         *)
(* A filter expression is the sequence of its clauses: the string          *)
(* "(host L and host R and port LP and port RP) or (...)" is modelled by   *)
(* <<clause, ...>>, and the empty string by << >>.                         *)
(***************************************************************************)
EXTENDS Integers, Sequences, FiniteSets, TLC

\* ------------------------------------------------------------------ bounds
MaxCycles == 2
MaxPackets == 2
MaxChurn == 1
MaxFds == 3
MaxTcp == 3
MaxTicks == 3
MaxCores == 2

\* Wire lengths a captured packet may have (packet.header.len).
Lens == {1, 2}

\* ------------------------------------------------- the host's connections
\* Connections the observed process may hold (rows of /proc/net/tcp tied to
\* a socket inode of the process), and one of another process.
ProcFlows == {1, 2}
ForeignFlows == {3}

Flow(f) ==
    CASE f = 1 -> [inode |-> 5, lip |-> "127.0.0.1", rip |-> "127.0.0.1",
                   lport |-> 33791, rport |-> 60914]
      [] f = 2 -> [inode |-> 7, lip |-> "10.0.0.2", rip |-> "10.0.0.9",
                   lport |-> 40000, rport |-> 443]
      [] OTHER -> [inode |-> 9, lip |-> "10.0.0.3", rip |-> "10.0.0.8",
                   lport |-> 50000, rport |-> 80]

\* The elements of a set of integers, ascending.
RECURSIVE SortedSeq(_)
SortedSeq(S) ==
    IF S = {} THEN << >>
    ELSE LET m == CHOOSE x \in S : \A y \in S : x <= y
         IN <<m>> \o SortedSeq(S \ {m})

\* process.fd(): the descriptors of the process: stdin (a path) and one
\* socket descriptor per open connection.
ProcessFd(open) ==
    <<[kind |-> "Path", inode |-> 0]>> \o
    [i \in 1..Cardinality(open) |->
        [kind |-> "Socket", inode |-> Flow(SortedSeq(open)[i]).inode]]

\* procfs::net::tcp(): the connection table of the host.
NetTcp(open) ==
    LET s == SortedSeq(open \cup ForeignFlows)
    IN [i \in 1..Len(s) |-> Flow(s[i])]

\* ---------------------------------------------------- build_packet_filter
SocketInodes(fd) ==
    {fd[i].inode : i \in {j \in DOMAIN fd : fd[j].kind = "Socket"}}

FormatClause(entry) ==
    [host1 |-> entry.lip, host2 |-> entry.rip,
     port1 |-> entry.lport, port2 |-> entry.rport]

\* build_packet_filter that collects the inode of every descriptor, whatever
\* its target.
build_packet_filter_AnyTarget(fd, tcp) ==
    LET inodes == {fd[i].inode : i \in DOMAIN fd}
        kept == SelectSeq(tcp, LAMBDA entry : entry.inode \in inodes)
    IN [i \in 1..Len(kept) |-> FormatClause(kept[i])]

\* Lines 40-68.
build_packet_filter(fd, tcp) ==
    LET inodes == SocketInodes(fd)
        kept == SelectSeq(tcp, LAMBDA entry : entry.inode \in inodes)
    IN [i \in 1..Len(kept) |-> FormatClause(kept[i])]

\* Arguments for a call of build_packet_filter on its own: descriptors that
\* are sockets and one that is not (a pipe whose inode number is also the
\* inode of a connection), and connection-table rows, two of them with the
\* same inode.
FdTargets ==
    {[kind |-> "Pipe", inode |-> 9],
     [kind |-> "Socket", inode |-> 5],
     [kind |-> "Socket", inode |-> 7]}

SharedInodeFlow ==
    [inode |-> 5, lip |-> "127.0.0.1", rip |-> "127.0.0.1",
     lport |-> 33791, rport |-> 60915]

TcpEntries == {Flow(1), Flow(2), Flow(3), SharedInodeFlow}

SeqsUpTo(S, n) == UNION {[1..k -> S] : k \in 0..n}

\* ------------------------------------------------------ period, cpu_usage
\* An f64 is a non-negative rational num/den, or NaN, or +infinity (the
\* operands here are never negative; rounding is left out, it does not
\* change whether a value is finite).
F64(n) == [kind |-> "num", num |-> n, den |-> 1]
F64NaN == [kind |-> "NaN", num |-> 0, den |-> 0]
F64Inf == [kind |-> "inf", num |-> 1, den |-> 0]

\* IEEE 754 division: x/0 is +infinity for x > 0, and 0/0 is NaN.
F64Div(x, y) ==
    CASE x.kind = "NaN" \/ y.kind = "NaN" -> F64NaN
      [] x.kind = "inf" /\ y.kind = "inf" -> F64NaN
      [] x.kind = "inf" -> F64Inf
      [] y.kind = "inf" -> F64(0)
      [] y.num = 0 /\ x.num = 0 -> F64NaN
      [] y.num = 0 -> F64Inf
      [] OTHER -> [kind |-> "num", num |-> x.num * y.den, den |-> x.den * y.num]

\* IEEE 754 multiplication: 0 times infinity is NaN.
F64Mul(x, y) ==
    CASE x.kind = "NaN" \/ y.kind = "NaN" -> F64NaN
      [] x.kind = "inf" \/ y.kind = "inf" ->
            IF (x.kind = "num" /\ x.num = 0) \/ (y.kind = "num" /\ y.num = 0)
            THEN F64NaN ELSE F64Inf
      [] OTHER -> [kind |-> "num", num |-> x.num * y.num, den |-> x.den * y.den]

saturating_sub(a, b) == IF a >= b THEN a - b ELSE 0

\* Lines 24-26.
period(ticks, prev_ticks, num_cores) ==
    F64Div(F64(saturating_sub(ticks, prev_ticks)), F64(num_cores))

\* Lines 28-30; stat and prev_stat are utime + stime of the two samples.
cpu_usage(stat, prev_stat, p) ==
    F64Mul(F64Div(F64(stat - prev_stat), p), F64(100))

\* ------------------------------------------------------ the capture device
\* A packet of a connection, as the device sees it.
PacketOf(f) ==
    [src |-> Flow(f).lip, dst |-> Flow(f).rip,
     sport |-> Flow(f).lport, dport |-> Flow(f).rport]

ClauseMatches(c, p) ==
    /\ c.host1 \in {p.src, p.dst}
    /\ c.host2 \in {p.src, p.dst}
    /\ c.port1 \in {p.sport, p.dport}
    /\ c.port2 \in {p.sport, p.dport}

\* capture.filter(expr, true) followed by capture.next(): the device hands
\* over the packets the installed expression accepts. libpcap compiles the
\* empty expression to a program that accepts every packet.
FilterAccepts(filter, p) ==
    \/ filter = << >>
    \/ \E i \in DOMAIN filter : ClauseMatches(filter[i], p)

\* -------------------------------------------------------------------- state
VARIABLES
    open,           \* connections the process holds now (the kernel's state)
    churn,          \* connections opened or closed so far
    installed,      \* the filter expression installed on the capture
    installedId,    \* which update it came from (0: the startup filter)
    counter,        \* the Mutex<u64> value
    lockHolder,     \* "none" | "capture" | "loop"
    poisoned,       \* the mutex is poisoned
    chan,           \* the mpsc channel: updates sent and not yet received
    sent,           \* sender.send calls that succeeded
    ctPc,           \* the capture thread's position
    ctPkt,          \* packet.header.len of the packet in hand (0: none)
    ctFilter,       \* the update try_recv returned, being installed
    pkts,           \* packets capture.next() has returned
    wireSum,        \* the sum of their wire lengths
    stopCycle,      \* the sampling cycle in which the capture thread ended
    slPc,           \* main's position
    slErr,          \* the error main returned with ("none": none so far)
    slFilter,       \* the filter built at line 141, about to be sent
    cycles,         \* sampling cycles started
    net_bytes,      \* the loop's last read of the counter
    prev_net_bytes, \* its baseline
    byte_diff,      \* the Net value of the sample being made (0: none)
    emitted,        \* samples printed
    reported,       \* the sum of the Net values of the samples printed
    stalePkts,      \* packets counted since the newest update was sent,
                    \* while that update is not installed
    tracking,       \* whether stalePkts is kept (FALSE: it stays 0)
    fnPc,           \* a function called on its own: "idle" | "call" | "returned"
    filterCall,     \* build_packet_filter: the arguments fd, tcp and the result
    cpuCall         \* period and cpu_usage: the arguments and the results

vars == <<open, churn, installed, installedId, counter, lockHolder, poisoned,
          chan, sent, ctPc, ctPkt, ctFilter, pkts, wireSum, stopCycle,
          slPc, slErr, slFilter, cycles, net_bytes, prev_net_bytes, byte_diff,
          emitted, reported, stalePkts, tracking, fnPc, filterCall, cpuCall>>

envVars == <<open, churn>>
ctVars == <<installed, installedId, ctPc, ctPkt, ctFilter, pkts, wireSum,
            stopCycle>>
slVars == <<slPc, slErr, slFilter, cycles, net_bytes, prev_net_bytes,
            byte_diff, emitted, sent>>

fnVars == <<tracking, fnPc, filterCall, cpuCall>>

NoFilter == [id |-> 0, filter |-> << >>]
NoFilterCall == [fd |-> << >>, tcp |-> << >>, bpf |-> << >>]
NoCpuCall ==
    [total_ticks |-> 0, prev_total_ticks |-> 0, cores |-> 1, stat |-> 0,
     prev_stat |-> 0, period |-> F64(0), cpu |-> F64(0)]

delay_s == 1

ProgramInit ==
    /\ open \in SUBSET ProcFlows
    /\ churn = 0
    /\ installed = << >>
    /\ installedId = 0
    /\ counter = 0
    /\ lockHolder = "none"
    /\ poisoned = FALSE
    /\ chan = << >>
    /\ sent = 0
    /\ ctPc = "unspawned"
    /\ ctPkt = 0
    /\ ctFilter = NoFilter
    /\ pkts = 0
    /\ wireSum = 0
    /\ stopCycle = 0
    /\ slPc = "startup"
    /\ slErr = "none"
    /\ slFilter = << >>
    /\ cycles = 0
    /\ net_bytes = 0
    /\ prev_net_bytes = 0
    /\ byte_diff = 0
    /\ emitted = 0
    /\ reported = 0
    /\ stalePkts = 0

Init ==
    /\ ProgramInit
    /\ tracking = FALSE
    /\ fnPc = "idle"
    /\ filterCall = NoFilterCall
    /\ cpuCall = NoCpuCall

\* main has returned: the process is gone, and its threads with it.
Running == slPc # "exited"

\* The capture thread has ended, and the Receiver it owned is dropped.
CaptureDead == ctPc \in {"stopped", "panicked"}

\* The connections packets can arrive on now.
LiveFlows == open \cup ForeignFlows

\* ------------------------------------------------------------- environment
\* The observed process opens a connection (those it opened before main
\* started are in Init).
EnvOpen ==
    /\ Running
    /\ slPc # "startup"
    /\ churn < MaxChurn
    /\ \E f \in ProcFlows \ open : open' = open \cup {f}
    /\ churn' = churn + 1
    /\ UNCHANGED <<ctVars, slVars, counter, lockHolder, poisoned, chan>>
    /\ UNCHANGED <<reported, stalePkts, fnVars>>

\* The observed process closes a connection.
EnvClose ==
    /\ Running
    /\ slPc # "startup"
    /\ churn < MaxChurn
    /\ \E f \in open : open' = open \ {f}
    /\ churn' = churn + 1
    /\ UNCHANGED <<ctVars, slVars, counter, lockHolder, poisoned, chan>>
    /\ UNCHANGED <<reported, stalePkts, fnVars>>

\* ------------------------------------------------------------ main: startup
\* Startup that spawns the capture thread on a capture without a filter and
\* leaves the first install to the first update.
Startup_NoInstall ==
    /\ slPc = "startup"
    /\ \/ /\ ctPc' = "next"
          /\ slPc' = "sleep"
          /\ slErr' = "none"
       \/ /\ slPc' = "exited"
          /\ slErr' = "startup"
          /\ UNCHANGED ctPc
    /\ UNCHANGED <<envVars, installed, installedId, counter, lockHolder,
                   poisoned, chan, sent, ctPkt, ctFilter, pkts, wireSum,
                   stopCycle, cycles, slFilter, net_bytes, prev_net_bytes,
                   byte_diff, emitted>>
    /\ UNCHANGED <<reported, stalePkts, fnVars>>

\* Lines 83-107: build and install the startup filter, spawn the thread.
\* Any failure is returned by '?' before the thread exists.
Startup ==
    /\ slPc = "startup"
    /\ \/ /\ installed' = build_packet_filter(ProcessFd(open), NetTcp(open))
          /\ ctPc' = "next"
          /\ slPc' = "sleep"
          /\ slErr' = "none"
       \/ /\ slPc' = "exited"
          /\ slErr' = "startup"
          /\ UNCHANGED <<installed, ctPc>>
    /\ UNCHANGED <<envVars, installedId, counter, lockHolder, poisoned, chan,
                   sent, ctPkt, ctFilter, pkts, wireSum, stopCycle, cycles,
                   slFilter, net_bytes, prev_net_bytes, byte_diff, emitted>>
    /\ UNCHANGED <<reported, stalePkts, fnVars>>

\* ------------------------------------------------------- the capture thread
\* Line 95: capture.next() returns a packet the installed filter accepts.
CaptureNext ==
    /\ Running
    /\ ctPc = "next"
    /\ pkts < MaxPackets
    /\ \E f \in LiveFlows, len \in Lens :
        /\ FilterAccepts(installed, PacketOf(f))
        /\ ctPkt' = len
        /\ wireSum' = wireSum + len
    /\ pkts' = pkts + 1
    /\ ctPc' = "lock"
    /\ UNCHANGED <<envVars, slVars, installed, installedId, ctFilter,
                   stopCycle, counter, lockHolder, poisoned, chan>>
    /\ UNCHANGED <<reported, stalePkts, fnVars>>

\* Line 95: capture.next() returns Err: the while-let loop ends, the closure
\* returns and drops the Receiver with the updates still queued in it.
CaptureNextErr ==
    /\ Running
    /\ ctPc = "next"
    /\ ctPc' = "stopped"
    /\ stopCycle' = cycles
    /\ chan' = << >>
    /\ UNCHANGED <<envVars, slVars, installed, installedId, ctPkt, ctFilter,
                   pkts, wireSum, counter, lockHolder, poisoned>>
    /\ stalePkts' = 0
    /\ UNCHANGED <<reported, fnVars>>

\* Line 96: thread_counter.lock().unwrap().
CaptureLock ==
    /\ Running
    /\ ctPc = "lock"
    /\ lockHolder = "none"
    /\ IF poisoned
       THEN /\ ctPc' = "panicked"
            /\ stopCycle' = cycles
            /\ chan' = << >>
            /\ UNCHANGED lockHolder
       ELSE /\ ctPc' = "incr"
            /\ lockHolder' = "capture"
            /\ UNCHANGED <<stopCycle, chan>>
    /\ UNCHANGED <<envVars, slVars, installed, installedId, ctPkt, ctFilter,
                   pkts, wireSum, counter, poisoned>>
    /\ UNCHANGED <<reported, stalePkts, fnVars>>

\* CaptureIncr with the length stored instead of added.
CaptureIncr_Assign ==
    /\ Running
    /\ ctPc = "incr"
    /\ counter' = ctPkt
    /\ lockHolder' = "none"
    /\ ctPkt' = 0
    /\ ctPc' = "recv"
    /\ UNCHANGED <<envVars, slVars, installed, installedId, ctFilter,
                   pkts, wireSum, stopCycle, poisoned, chan>>
    /\ stalePkts' = IF tracking /\ chan # << >> THEN stalePkts + 1 ELSE stalePkts
    /\ UNCHANGED <<reported, fnVars>>

\* CaptureIncr without drop(bytes): the guard lives on after the increment.
CaptureIncr_NoDrop ==
    /\ Running
    /\ ctPc = "incr"
    /\ counter' = counter + ctPkt
    /\ ctPkt' = 0
    /\ ctPc' = "recv"
    /\ UNCHANGED <<envVars, slVars, installed, installedId, ctFilter,
                   pkts, wireSum, stopCycle, poisoned, chan, lockHolder>>
    /\ stalePkts' = IF tracking /\ chan # << >> THEN stalePkts + 1 ELSE stalePkts
    /\ UNCHANGED <<reported, fnVars>>

\* Lines 97-98: *bytes += packet.header.len as u64; drop(bytes).
CaptureIncr ==
    /\ Running
    /\ ctPc = "incr"
    /\ counter' = counter + ctPkt
    /\ lockHolder' = "none"
    /\ ctPkt' = 0
    /\ ctPc' = "recv"
    /\ UNCHANGED <<envVars, slVars, installed, installedId, ctFilter,
                   pkts, wireSum, stopCycle, poisoned, chan>>
    /\ stalePkts' = IF tracking /\ chan # << >> THEN stalePkts + 1 ELSE stalePkts
    /\ UNCHANGED <<reported, fnVars>>

\* CaptureTryRecv with a blocking receiver.recv().
CaptureTryRecv_Blocking ==
    /\ Running
    /\ ctPc = "recv"
    /\ chan # << >>
    /\ ctFilter' = Head(chan)
    /\ chan' = Tail(chan)
    /\ ctPc' = "install"
    /\ UNCHANGED <<envVars, slVars, installed, installedId, ctPkt, pkts, wireSum, stopCycle, counter, lockHolder, poisoned>>
    /\ UNCHANGED <<reported, stalePkts, fnVars>>

\* CaptureTryRecv that drains the channel and keeps the newest update.
CaptureTryRecv_Newest ==
    /\ Running
    /\ ctPc = "recv"
    /\ IF chan # << >>
       THEN /\ ctFilter' = chan[Len(chan)]
            /\ chan' = << >>
            /\ ctPc' = "install"
       ELSE /\ ctPc' = "next"
            /\ UNCHANGED <<ctFilter, chan>>
    /\ UNCHANGED <<envVars, slVars, installed, installedId, ctPkt, pkts, wireSum, stopCycle, counter, lockHolder, poisoned>>
    /\ UNCHANGED <<reported, stalePkts, fnVars>>

\* Line 100: receiver.try_recv(): the oldest queued update, or Err at once.
CaptureTryRecv ==
    /\ Running
    /\ ctPc = "recv"
    /\ IF chan # << >>
       THEN /\ ctFilter' = Head(chan)
            /\ chan' = Tail(chan)
            /\ ctPc' = "install"
       ELSE /\ ctPc' = "next"
            /\ UNCHANGED <<ctFilter, chan>>
    /\ UNCHANGED <<envVars, slVars, installed, installedId, ctPkt, pkts, wireSum, stopCycle, counter, lockHolder, poisoned>>
    /\ UNCHANGED <<reported, stalePkts, fnVars>>

\* Line 102: capture.filter(&filter, true).unwrap(): the compile and install
\* succeed, or the unwrap panics and the thread unwinds.
CaptureInstall ==
    /\ Running
    /\ ctPc = "install"
    /\ \/ /\ installed' = ctFilter.filter
          /\ installedId' = ctFilter.id
          /\ ctPc' = "next"
          /\ UNCHANGED <<stopCycle, chan, poisoned>>
       \/ /\ ctPc' = "panicked"
          /\ stopCycle' = cycles
          /\ chan' = << >>
          /\ poisoned' = (poisoned \/ lockHolder = "capture")
          /\ UNCHANGED <<installed, installedId>>
    /\ ctFilter' = NoFilter
    /\ UNCHANGED <<envVars, slVars, ctPkt, pkts, wireSum, counter, lockHolder>>
    /\ stalePkts' = IF ctPc' = "panicked" \/ installedId' = sent THEN 0 ELSE stalePkts
    /\ UNCHANGED <<reported, fnVars>>

\* ------------------------------------------------------- the sampling loop
\* SLSleep that prints the values it has when a later read fails, before
\* it returns the Err.
SLSleep_Partial ==
    /\ slPc = "sleep"
    /\ cycles < MaxCycles
    /\ cycles' = cycles + 1
    /\ \/ /\ slPc' = "lock"
          /\ UNCHANGED <<slErr, emitted>>
       \/ /\ slPc' = "exited"
          /\ slErr' = "counters"
          /\ emitted' = emitted + 1
    /\ UNCHANGED <<slFilter, envVars, ctVars, counter, lockHolder, poisoned,
                   chan, sent, net_bytes, prev_net_bytes, byte_diff>>
    /\ UNCHANGED <<reported, stalePkts, fnVars>>

\* Lines 110-130: thread::sleep, then process.stat()?, total_cpu_time()?,
\* process.statm()?, process.io()?: all are read, or the first Err is
\* returned from main. None of it touches the state shared with the thread.
SLSleep ==
    /\ slPc = "sleep"
    /\ cycles < MaxCycles     \* the model's cap; the loop itself has none
    /\ cycles' = cycles + 1
    /\ \/ /\ slPc' = "lock"
          /\ UNCHANGED slErr
       \/ /\ slPc' = "exited"
          /\ slErr' = "counters"
    /\ UNCHANGED <<slFilter, envVars, ctVars, counter, lockHolder, poisoned,
                   chan, sent, net_bytes, prev_net_bytes, byte_diff, emitted>>
    /\ UNCHANGED <<reported, stalePkts, fnVars>>

\* Line 132: counter.lock().unwrap(): waits for the mutex.
SLLock ==
    /\ slPc = "lock"
    /\ lockHolder = "none"
    /\ IF poisoned
       THEN /\ slPc' = "exited"
            /\ slErr' = "poison"
            /\ UNCHANGED lockHolder
       ELSE /\ slPc' = "read"
            /\ lockHolder' = "loop"
            /\ UNCHANGED slErr
    /\ UNCHANGED <<slFilter, envVars, ctVars, counter, poisoned, chan, sent, cycles,
                   net_bytes, prev_net_bytes, byte_diff, emitted>>
    /\ UNCHANGED <<reported, stalePkts, fnVars>>

\* SLRead with the guard bound to a variable that lives to the end of the
\* loop body.
SLRead_KeepGuard ==
    /\ slPc = "read"
    /\ net_bytes' = counter
    /\ byte_diff' = (counter - prev_net_bytes) \div delay_s
    /\ prev_net_bytes' = counter
    /\ slPc' = "print"
    /\ UNCHANGED <<slFilter, envVars, ctVars, counter, poisoned, chan, sent, slErr,
                   cycles, emitted, lockHolder>>
    /\ UNCHANGED <<reported, stalePkts, fnVars>>

\* SLRead that takes the value out of the counter (std::mem::take) and so
\* reports the bytes since the last read directly.
SLRead_Take ==
    /\ slPc = "read"
    /\ net_bytes' = counter
    /\ counter' = 0
    /\ lockHolder' = "none"
    /\ byte_diff' = (counter - prev_net_bytes) \div delay_s
    /\ prev_net_bytes' = 0
    /\ slPc' = "print"
    /\ UNCHANGED <<slFilter, envVars, ctVars, poisoned, chan, sent, slErr,
                   cycles, emitted>>
    /\ UNCHANGED <<reported, stalePkts, fnVars>>

\* SLRead without line 134: the baseline is left at its first value.
SLRead_NoBaseline ==
    /\ slPc = "read"
    /\ net_bytes' = counter
    /\ lockHolder' = "none"
    /\ byte_diff' = (counter - prev_net_bytes) \div delay_s
    /\ slPc' = "print"
    /\ UNCHANGED <<slFilter, envVars, ctVars, counter, poisoned, chan, sent, slErr,
                   cycles, emitted, prev_net_bytes>>
    /\ UNCHANGED <<reported, stalePkts, fnVars>>

\* Lines 132-134: the value is copied out and the guard, a temporary, is
\* dropped at the end of the statement; then the rate and the new baseline.
SLRead ==
    /\ slPc = "read"
    /\ net_bytes' = counter
    /\ lockHolder' = "none"
    /\ byte_diff' = (counter - prev_net_bytes) \div delay_s
    /\ prev_net_bytes' = counter
    /\ slPc' = "print"
    /\ UNCHANGED <<slFilter, envVars, ctVars, counter, poisoned, chan, sent, slErr,
                   cycles, emitted>>
    /\ UNCHANGED <<reported, stalePkts, fnVars>>

\* Lines 136-139: println! of the sample; byte_diff, a local of the loop
\* body, is not used after it.
SLPrint ==
    /\ slPc = "print"
    /\ emitted' = emitted + 1
    /\ byte_diff' = 0
    /\ slPc' = "flows"
    /\ UNCHANGED <<slFilter, envVars, ctVars, counter, lockHolder, poisoned,
                   chan, sent, slErr, cycles, net_bytes, prev_net_bytes>>
    /\ reported' = reported + byte_diff
    /\ UNCHANGED <<stalePkts, fnVars>>

\* SLFlows with the Err logged and the cycle's update skipped.
SLFlows_Skip ==
    /\ slPc = "flows"
    /\ \/ /\ slFilter' = build_packet_filter(ProcessFd(open), NetTcp(open))
          /\ slPc' = "send"
          /\ UNCHANGED slErr
       \/ /\ slPc' = "sleep"
          /\ slErr' = "flows"
          /\ UNCHANGED slFilter
    /\ UNCHANGED <<envVars, ctVars, counter, lockHolder, poisoned, chan, sent,
                   cycles, net_bytes, prev_net_bytes, byte_diff, emitted>>
    /\ UNCHANGED <<reported, stalePkts, fnVars>>

\* Line 141, the arguments: process.fd()? and procfs::net::tcp()? are read
\* and the filter is built, or the Err is returned from main.
SLFlows ==
    /\ slPc = "flows"
    /\ \/ /\ slFilter' = build_packet_filter(ProcessFd(open), NetTcp(open))
          /\ slPc' = "send"
          /\ UNCHANGED slErr
       \/ /\ slPc' = "exited"
          /\ slErr' = "flows"
          /\ UNCHANGED slFilter
    /\ UNCHANGED <<envVars, ctVars, counter, lockHolder, poisoned, chan, sent,
                   cycles, net_bytes, prev_net_bytes, byte_diff, emitted>>
    /\ UNCHANGED <<reported, stalePkts, fnVars>>

\* SLSend on a bounded channel (mpsc::sync_channel(1)): send waits while
\* the one slot is taken.
SLSend_Bounded ==
    /\ slPc = "send"
    /\ \/ /\ ~CaptureDead
          /\ chan = << >>
          /\ chan' = <<[id |-> sent + 1, filter |-> slFilter]>>
          /\ sent' = sent + 1
          /\ slPc' = "sleep"
          /\ UNCHANGED slErr
       \/ /\ CaptureDead
          /\ slPc' = "exited"
          /\ slErr' = "send"
          /\ UNCHANGED <<chan, sent>>
    /\ slFilter' = << >>
    /\ UNCHANGED <<envVars, ctVars, counter, lockHolder, poisoned, cycles,
                   net_bytes, prev_net_bytes, byte_diff, emitted>>
    /\ stalePkts' = IF sent' # sent THEN 0 ELSE stalePkts
    /\ UNCHANGED <<reported, fnVars>>

\* Line 141: sender.send(filter)?: the filter is queued (the channel is
\* unbounded: send never waits), or send returns Err because the Receiver
\* is dropped, and main returns it.
SLSend ==
    /\ slPc = "send"
    /\ \/ /\ ~CaptureDead
          /\ chan' = Append(chan, [id |-> sent + 1, filter |-> slFilter])
          /\ sent' = sent + 1
          /\ slPc' = "sleep"
          /\ UNCHANGED slErr
       \/ /\ CaptureDead
          /\ slPc' = "exited"
          /\ slErr' = "send"
          /\ UNCHANGED <<chan, sent>>
    /\ slFilter' = << >>
    /\ UNCHANGED <<envVars, ctVars, counter, lockHolder, poisoned, cycles,
                   net_bytes, prev_net_bytes, byte_diff, emitted>>
    /\ stalePkts' = IF sent' # sent THEN 0 ELSE stalePkts
    /\ UNCHANGED <<reported, fnVars>>

\* ------------------------------------------------------------ specification
CaptureStep ==
    \/ CaptureLock
    \/ CaptureIncr
    \/ CaptureTryRecv
    \/ CaptureInstall

SLStep ==
    \/ SLSleep
    \/ SLRead
    \/ SLPrint
    \/ SLFlows
    \/ SLSend

Next ==
    \/ EnvOpen
    \/ EnvClose
    \/ Startup
    \/ CaptureNext
    \/ CaptureNextErr
    \/ CaptureStep
    \/ SLStep
    \/ SLLock

Spec == Init /\ [][Next]_vars

\* The scheduler runs every thread that can take a step; a thread waiting
\* for the mutex gets it when it is free again and again; the device hands
\* over a packet the filter accepts while such packets keep arriving.
FairSpec ==
    /\ Spec
    /\ WF_vars(CaptureStep)
    /\ WF_vars(CaptureNext)
    /\ WF_vars(SLStep)
    /\ SF_vars(SLLock)

\* The program with the history variable stalePkts kept.
StaleInit ==
    /\ ProgramInit
    /\ tracking = TRUE
    /\ fnPc = "idle"
    /\ filterCall = NoFilterCall
    /\ cpuCall = NoCpuCall

StaleSpec == StaleInit /\ [][Next]_vars

\* ------------------------------------------ the functions, called on their own
progVars ==
    <<open, churn, installed, installedId, counter, lockHolder, poisoned,
      chan, sent, ctPc, ctPkt, ctFilter, pkts, wireSum, stopCycle, slPc,
      slErr, slFilter, cycles, net_bytes, prev_net_bytes, byte_diff, emitted,
      reported, stalePkts>>

\* build_packet_filter on any descriptor list and any connection table.
FilterInit ==
    /\ ProgramInit
    /\ open = {}
    /\ tracking = FALSE
    /\ fnPc = "call"
    /\ filterCall \in [fd : SeqsUpTo(FdTargets, MaxFds),
                        tcp : SeqsUpTo(TcpEntries, MaxTcp),
                        bpf : {<< >>}]
    /\ cpuCall = NoCpuCall

CallBuildPacketFilter ==
    /\ fnPc = "call"
    /\ filterCall' =
          [filterCall EXCEPT
              !.bpf = build_packet_filter(filterCall.fd, filterCall.tcp)]
    /\ fnPc' = "returned"
    /\ UNCHANGED <<progVars, tracking, cpuCall>>

FilterNext == CallBuildPacketFilter

FilterSpec == FilterInit /\ [][FilterNext]_vars

\* Lines 116-117 on any two samples of the system's ticks and of the
\* process's ticks (counters of the kernel: the process's never go down).
CpuInit ==
    /\ ProgramInit
    /\ open = {}
    /\ tracking = FALSE
    /\ fnPc = "call"
    /\ filterCall = NoFilterCall
    /\ cpuCall \in [total_ticks : 0..MaxTicks, prev_total_ticks : 0..MaxTicks,
                     cores : 1..MaxCores, stat : 0..MaxTicks,
                     prev_stat : 0..MaxTicks, period : {F64(0)},
                     cpu : {F64(0)}]
    /\ cpuCall.prev_stat <= cpuCall.stat

CallCpuUsage ==
    /\ fnPc = "call"
    /\ LET p == period(cpuCall.total_ticks, cpuCall.prev_total_ticks,
                       cpuCall.cores)
       IN cpuCall' =
            [cpuCall EXCEPT
                !.period = p,
                !.cpu = cpu_usage(cpuCall.stat, cpuCall.prev_stat, p)]
    /\ fnPc' = "returned"
    /\ UNCHANGED <<progVars, tracking, filterCall>>

CpuNext == CallCpuUsage

CpuSpec == CpuInit /\ [][CpuNext]_vars

\* ------------------------------------------------------------------ helpers
\* The bytes whose increment is complete: the wire lengths of all the
\* packets the device delivered, but of the one the thread still holds
\* before its increment.
CountedBytes == IF ctPc \in {"lock", "incr"} THEN wireSum - ctPkt ELSE wireSum

\* Some packet that can arrive now is accepted by the installed filter.
TrafficAccepted == \E f \in LiveFlows : FilterAccepts(installed, PacketOf(f))

\* The updates sent and not installed, oldest first: the one try_recv has
\* returned and the thread is installing, then those in the channel.
PendingUpdates ==
    (IF ctPc = "install" THEN <<ctFilter>> ELSE << >>) \o chan

\* ------------------------------------------------------------------- claims

\* C1: a read of the counter under the lock returns exactly the sum of the
\* wire lengths of the packets whose increment is complete: L1+...+LN after
\* all N increments, whatever the interleaving with the capture thread (with
\* or without filter updates; the stable-filter case is the one with sent = 0).
C1_SumOfLengths ==
    [][(slPc = "read" /\ slPc' = "print") => net_bytes' = CountedBytes]_vars

\* C1 witness: no update was ever sent, two packets of lengths 1 and 2 were
\* counted, and the loop has read 3.
C1_Witness ==
    /\ sent = 0
    /\ slPc = "print"
    /\ pkts = 2
    /\ wireSum = 3
    /\ ctPc \in {"recv", "next"}
    /\ net_bytes = 3

\* C2 (the claim as stated): every update sent is eventually installed while
\* the capture thread is alive and the process runs, also when the installed
\* filter accepts none of the packets that still arrive. (The last disjunct
\* leaves out the runs this model cuts short at MaxPackets packets.)
C2_EventuallyInstalled ==
    \A i \in 1..MaxCycles :
        (sent >= i) ~>
            \/ installedId >= i
            \/ CaptureDead
            \/ ~Running
            \/ pkts = MaxPackets

\* C3 (the claim as stated): a check of the channel that finds updates
\* pending takes the newest one and leaves none of the older ones queued.
C3_LatestValueWins ==
    [][(ctPc = "recv" /\ ctPc' = "install") =>
          /\ ctFilter' = chan[Len(chan)]
          /\ chan' = << >>]_vars

\* C4 (the claim as stated): an install attempt, failed or not, leaves the
\* capture thread running: it goes on to read the next packet, with the
\* installed filter unchanged when the attempt failed.
C4_InstallFailureSurvived ==
    [][(ctPc = "install" /\ ctPc' # "install") =>
          /\ ctPc' = "next"
          /\ installed' \in {installed, ctFilter.filter}]_vars

\* C5 (the claim as stated): after the capture thread has ended on a device
\* read failure, the sampling loop is never ended by its send of the filter.
C5_LoopSurvivesCaptureExit ==
    ctPc = "stopped" => slErr # "send"

\* C6 (the claim as stated): after a failed read of the descriptor list or
\* of the connection table the sampling loop is still running.
C6_FlowReadFailureRecoverable ==
    slErr = "flows" => Running

\* C6 (amended): a failed read of the descriptor list or of the connection
\* table ends main with that error: no update is sent for the cycle, the
\* installed filter and the queued updates are left as they were, and
\* nothing runs afterwards.
C6_FlowReadFailureFatal ==
    [][ /\ slErr' = "flows" =>
              /\ slPc' = "exited"
              /\ (slErr = "none" =>
                    /\ sent' = sent
                    /\ chan' = chan
                    /\ installed' = installed
                    /\ sent = cycles - 1)
        /\ slErr = "flows" => UNCHANGED vars ]_vars

\* C6 witness: the second cycle's read failed after the first cycle's update
\* had been installed; main has returned and that filter is still installed.
C6_Witness ==
    /\ slErr = "flows"
    /\ slPc = "exited"
    /\ cycles = 2
    /\ sent = 1
    /\ installedId = 1

\* C7: a cycle whose counters were read always gets the counter lock, emits
\* its sample and runs to its end: past the send of its filter update to the
\* next sleep, or to main's return with an error; whatever the capture
\* thread does (blocked in the packet read for ever included).
C7_LoopNeverBlocked ==
    (slPc = "lock") ~> (emitted = cycles /\ slPc \in {"sleep", "exited"})

\* C7 witness: the capture thread is blocked in the packet read, no packet
\* that can arrive is accepted by its filter, and the loop has completed two
\* cycles whose updates both sit unreceived in the channel.
C7_Witness ==
    /\ ctPc = "next"
    /\ ~TrafficAccepted
    /\ pkts = 0
    /\ emitted = 2
    /\ Len(chan) = 2
    /\ slPc = "sleep"

\* C8: the check of the channel never waits and is followed at once by the
\* install (an update was queued: the oldest is installed before the next
\* packet is read) or by the packet read (none was queued).
C8_TryRecvNonBlocking ==
    [][ /\ (ctPc = "recv" /\ Running) => ENABLED CaptureTryRecv
        /\ (ctPc = "recv" /\ ctPc' # "recv") =>
              IF chan = << >>
              THEN ctPc' = "next" /\ installed' = installed
              ELSE ctPc' = "install" /\ ctFilter' = Head(chan)
        /\ (ctPc = "install" /\ ctPc' = "next") => installed' = ctFilter.filter
        /\ (pkts' # pkts) => ctPc = "next" ]_vars

\* C8 witness: the thread found the channel empty after its first packet,
\* read a second packet, and is now installing an update it found after it.
C8_Witness ==
    /\ ctPc = "install"
    /\ pkts = 2
    /\ sent = 1

\* C9: the capture thread does not hold the counter lock while blocked in the
\* packet read or installing a filter, and the sampling loop holds it only
\* for the read of the counter (not asleep or reading the process counters,
\* position "sleep", nor printing, reading the flows or sending).
C9_NoLockAcrossIO ==
    /\ ctPc \in {"next", "install"} => lockHolder # "capture"
    /\ slPc \in {"sleep", "print", "flows", "send"} =>
          lockHolder # "loop"

\* C9 witness: the loop holds the lock for its read while the capture thread
\* is installing a filter.
C9_Witness ==
    /\ ctPc = "install"
    /\ slPc = "read"
    /\ lockHolder = "loop"

\* C10: once the capture thread has ended the counter never changes, the
\* mutex is free or held by the loop and not poisoned, and a read by the loop
\* returns the counter's value, the sum of all the increments made.
C10_FrozenReadable ==
    [][CaptureDead =>
        /\ counter' = counter
        /\ lockHolder # "capture" /\ ~poisoned
        /\ (slPc = "read" /\ slPc' # "read") =>
              slPc' = "print" /\ net_bytes' = counter
                              /\ net_bytes' = CountedBytes]_vars

\* C10 witness: the device read failed after some bytes were counted, and a
\* sampling cycle started later has read them.
C10_Witness ==
    /\ ctPc = "stopped"
    /\ cycles > stopCycle
    /\ slPc = "print"
    /\ net_bytes = counter
    /\ counter > 0

\* C11: the counter has one writer and one reader: its value is changed
\* only by the capture thread's increment, every change adds the wire length
\* of the one packet the thread holds, and every step of the sampling loop,
\* the read under the lock included, leaves the value as it was.
C11_SingleWriter ==
    [][ /\ counter' # counter =>
              /\ ctPc = "incr" /\ ctPc' = "recv"
              /\ ctPkt \in Lens
              /\ counter' = counter + ctPkt
        /\ slVars' # slVars => counter' = counter
        /\ (slPc = "read" /\ slPc' = "print") =>
              counter' = counter /\ net_bytes' = counter ]_vars

\* C11 witness: the loop has read the counter twice, the capture thread
\* added a packet between the two reads, and the counter still holds all
\* the bytes counted.
C11_Witness ==
    /\ cycles = 2
    /\ slPc = "print"
    /\ byte_diff > 0
    /\ net_bytes > byte_diff
    /\ counter = net_bytes
    /\ counter = wireSum

\* C12: build_packet_filter(fd, tcp) returns exactly one clause for every
\* row of tcp whose inode is the inode of some socket descriptor of fd and
\* none for any other row, in the order of the rows; the clause names the
\* row's two addresses and two ports. Descriptors that are not sockets and
\* repeated descriptors of one socket add nothing; rows that share a
\* matching inode each get their clause.
C12_OneClausePerMatchingFlow ==
    fnPc = "returned" =>
        LET fd == filterCall.fd
            tcp == filterCall.tcp
            bpf == filterCall.bpf
            rows == {i \in DOMAIN tcp :
                        \E j \in DOMAIN fd : /\ fd[j].kind = "Socket"
                                              /\ fd[j].inode = tcp[i].inode}
            order == SortedSeq(rows)
        IN /\ Len(bpf) = Cardinality(rows)
           /\ \A k \in DOMAIN bpf :
                 /\ bpf[k].host1 = tcp[order[k]].lip
                 /\ bpf[k].host2 = tcp[order[k]].rip
                 /\ bpf[k].port1 = tcp[order[k]].lport
                 /\ bpf[k].port2 = tcp[order[k]].rport

\* C12 witness: a pipe whose inode number is that of the third row and two
\* descriptors of the socket with inode 5; the rows are two connections of
\* inode 5 and, between them, one of inode 9: two clauses, in row order.
C12_Witness ==
    /\ fnPc = "returned"
    /\ filterCall.fd = <<[kind |-> "Pipe", inode |-> 9],
                         [kind |-> "Socket", inode |-> 5],
                         [kind |-> "Socket", inode |-> 5]>>
    /\ filterCall.tcp = <<SharedInodeFlow, Flow(3), Flow(1)>>
    /\ filterCall.bpf = <<FormatClause(SharedInodeFlow), FormatClause(Flow(1))>>

\* C13 (the claim as stated): while the installed filter is the one built
\* for a process without socket descriptors (no row of the table matches),
\* the device delivers no packet to the capture thread, so the counter gets
\* no bytes from it.
C13_NoSocketsMatchNothing ==
    [][ ( /\ ctPc # "unspawned"
          /\ installed = build_packet_filter(ProcessFd({}), NetTcp({})) )
        => pkts' = pkts /\ wireSum' = wireSum ]_vars

\* C14 (the claim as stated): for two samples of the system's ticks with
\* total_ticks >= prev_total_ticks and at least one core, the period is a
\* number >= 0, and the CPU value computed with it is a number too, never
\* NaN or infinite, the period being zero or not.
C14_PeriodGuarded ==
    ( /\ fnPc = "returned"
      /\ cpuCall.total_ticks >= cpuCall.prev_total_ticks
      /\ cpuCall.cores >= 1 )
    => /\ cpuCall.period.kind = "num"
       /\ cpuCall.period.num >= 0 /\ cpuCall.period.den > 0
       /\ cpuCall.cpu.kind = "num"

\* C15 (the claim as stated): after an update is sent, the capture thread
\* counts at most one more packet before that update is installed (as long
\* as the thread lives and no newer update is sent).
C15_StalenessOnePacket ==
    stalePkts <= 1

\* C16: a failed read of a counter (process.stat, total_cpu_time, statm,
\* io) ends main with that error in the cycle it happens in: no sample is
\* printed and no update is sent for that cycle (all the earlier cycles
\* have theirs), and nothing runs afterwards. The loop has no exit of its
\* own: main returns only with an error, and a cycle whose counter reads
\* succeed goes on to the read of the byte counter.
C16_CounterFailureFatal ==
    [][ /\ (slErr' = "counters" /\ slErr = "none") =>
              /\ slPc = "sleep" /\ slPc' = "exited"
              /\ cycles' = cycles + 1
              /\ emitted' = emitted /\ emitted = cycles
              /\ reported' = reported
              /\ sent' = sent /\ sent = cycles
              /\ chan' = chan
        /\ slErr = "counters" => UNCHANGED vars
        /\ slPc' = "exited" => slErr' # "none"
        /\ (slPc = "sleep" /\ slPc' # "sleep") =>
              slPc' = "lock" \/ slErr' = "counters" ]_vars

\* C16 witness: the first cycle printed its sample and sent its update; a
\* counter read of the second cycle failed and main has returned.
C16_Witness ==
    /\ slErr = "counters"
    /\ slPc = "exited"
    /\ cycles = 2
    /\ emitted = 1
    /\ sent = 1

\* C17: the startup filter, built from the descriptors and the table as
\* they are then, is installed before the capture thread exists: the thread
\* starts at its packet read with that filter installed, no packet is read
\* or counted before, and a failure at startup (the install included) ends
\* main with no thread spawned, no packet read and no sample printed.
C17_FilterBeforeCapture ==
    [][ /\ (ctPc = "unspawned" /\ ctPc' # "unspawned") =>
              /\ slPc = "startup" /\ slPc' = "sleep"
              /\ ctPc' = "next"
              /\ installed' = build_packet_filter(ProcessFd(open), NetTcp(open))
              /\ installedId' = 0
        /\ ctPc = "unspawned" => pkts' = 0 /\ counter' = 0 /\ emitted' = 0
        /\ pkts' # pkts => ctPc = "next"
        /\ slErr' = "startup" =>
              /\ slPc' = "exited"
              /\ ctPc' = "unspawned"
              /\ pkts' = 0 /\ counter' = 0 /\ emitted' = 0 /\ sent' = 0 ]_vars

\* C17 witness: the process held a connection at startup; the thread has
\* read its first packet under the startup filter, the clause of that
\* connection, before any update was sent.
C17_Witness ==
    /\ installedId = 0
    /\ sent = 0
    /\ installed # << >>
    /\ ctPc = "lock"
    /\ pkts = 1

\* C18: the loop's baseline never exceeds the counter, so the unsigned
\* subtraction net_bytes - prev_net_bytes cannot underflow; and the Net
\* values of all the samples printed add up to the counter's value at the
\* most recent read (the sample being printed included once it is out).
C18_DeltasSumToLastRead ==
    /\ prev_net_bytes <= counter
    /\ byte_diff >= 0
    /\ slPc = "print" => reported + byte_diff = net_bytes
    /\ slPc # "print" => reported = net_bytes /\ byte_diff = 0
    /\ slPc = "read" => counter - prev_net_bytes >= 0

\* C18 witness: two samples were printed, with Net values that add up to
\* the three bytes of the two packets counted, the second after the first
\* read.
C18_Witness ==
    /\ emitted = 2
    /\ slPc = "flows"
    /\ pkts = 2
    /\ reported = 3
    /\ net_bytes = 3
    /\ counter = 3

\* C19: updates are installed oldest first, at most one per packet: each
\* install is of the update sent right after the one installed before (the
\* installed index goes up by one and never down), it follows the read of
\* a packet of its own, and while the capture thread lives the updates
\* sent are those installed plus those pending, in the order sent.
C19_FifoOnePerPacket ==
    [][ /\ installedId' \in {installedId, installedId + 1}
        /\ installedId' # installedId =>
              /\ ctPc = "install" /\ ctPc' = "next"
              /\ ctFilter.id = installedId'
              /\ installed' = ctFilter.filter
              /\ chan' = chan
        /\ (ctPc = "install" /\ ~CaptureDead') => ctPc' \in {"install", "next"}
        /\ (ctPc # "install" /\ ctPc' = "install") =>
              /\ ctPc = "recv"
              /\ ctFilter' = Head(chan) /\ chan' = Tail(chan)
        /\ ~CaptureDead =>
              /\ sent = installedId + Len(PendingUpdates)
              /\ \A k \in DOMAIN PendingUpdates :
                    PendingUpdates[k].id = installedId + k
              /\ installedId + (IF ctPc = "install" THEN 1 ELSE 0) <= pkts
        /\ ~CaptureDead' =>
              /\ sent' = installedId' + Len(PendingUpdates')
              /\ \A k \in DOMAIN PendingUpdates' :
                    PendingUpdates'[k].id = installedId' + k
              /\ installedId' + (IF ctPc' = "install" THEN 1 ELSE 0) <= pkts' ]_vars

\* C19 witness: two updates were queued; the first was installed after the
\* first packet, and the second is being installed after the second packet.
C19_Witness ==
    /\ sent = 2
    /\ installedId = 1
    /\ pkts = 2
    /\ ctPc = "install"
    /\ ctFilter.id = 2
    /\ chan = << >>

\* C20: the counter mutex is never poisoned: the capture thread never holds
\* the lock where it can panic (its failed install comes after the guard is
\* dropped), so it never ends holding it, and the loop's lock().unwrap()
\* never fails: the loop passes from the lock to the read every time, also
\* after the thread has panicked.
C20_NeverPoisoned ==
    [][ /\ ~poisoned /\ ~poisoned'
        /\ slErr' # "poison"
        /\ ctPc' = "panicked" =>
              /\ ctPc \in {"install", "panicked"}
              /\ lockHolder # "capture" /\ lockHolder' # "capture"
        /\ (slPc = "lock" /\ slPc' # "lock") =>
              slPc' = "read" /\ lockHolder' = "loop" ]_vars

\* C20 witness: the install of an update failed and the thread panicked;
\* a sampling cycle started after that has taken the lock and read the
\* counter.
C20_Witness ==
    /\ ctPc = "panicked"
    /\ cycles > stopCycle
    /\ slPc = "print"
    /\ ~poisoned
    /\ net_bytes = counter

====
